---- MODULE Spec2Model ----
(***************************************************************************)
(* Tasks + Comments API (src/main.py): ten FastAPI handlers over two       *)
(* SQLite tables, one SQLAlchemy session per request.                      *)
(*                                                                         *)
(* A request is received by a worker thread (FastAPI runs the synchronous  *)
(* handlers in a thread pool), validated, and then runs its handler one    *)
(* store statement at a time: the statements of one handler are separate   *)
(* steps, because another request's statements can run between them        *)
(* (pysqlite opens a transaction only in front of an INSERT, UPDATE or     *)
(* DELETE, so a SELECT holds no lock once it has returned).                *)
(***************************************************************************)
EXTENDS Integers, FiniteSets, Sequences

VARIABLES task, comment, req, nreq

vars == <<task, comment, req, nreq>>

\* ---------------------------------------------------------------- bounds
\* Requests received in one behaviour when they run one after the other.
MaxRequests == 4

\* Requests received in one behaviour when they run concurrently.
MaxRacing == 3

\* Requests received after the end-to-end scenario.
MaxAfter == 2

\* The worker threads that run handlers.
Workers == {"w1", "w2"}

\* Python's None: an omitted Optional field of a payload.
None == "<None>"

Titles == {"", "A", "B"}
Authors == {"", "bob"}
Contents == {"", "hi"}

\* ---------------------------------------------------------------- tables
\* class Task(SQLModel, table=True): a row of table "task".
Task(id, title) == [id |-> id, title |-> title]

\* class Comment(SQLModel, table=True): a row of table "comment".
Comment(id, task_id, author, content) ==
    [id |-> id, task_id |-> task_id, author |-> author, content |-> content]

Ids(rows) == {r.id : r \in rows}

Max(S) == CHOOSE m \in S : \A x \in S : x <= m

\* Faulty variant: ids count from 0.
NextId_from0(rows) == IF rows = {} THEN 0 ELSE Max(Ids(rows)) + 1

\* id: Optional[int] = Field(default=None, primary_key=True) is an INTEGER
\* PRIMARY KEY without AUTOINCREMENT: SQLite gives a new row the largest id
\* in the table plus one, 1 in an empty table.
NextId(rows) == IF rows = {} THEN 1 ELSE Max(Ids(rows)) + 1

\* session.get(Model, id): the row with that primary key, or nothing.
Get(rows, id) == {r \in rows : r.id = id}

\* Python truthiness of an Optional[str]: None and "" are falsy.
Truthy(s) == s # None /\ s # ""

\* The task ids a client sends: 0 (never a stored id), every task id in use,
\* by a Task or by a Comment's task_id, and the first unused one.
TaskIds == 0 .. Max(Ids(task) \cup {c.task_id : c \in comment} \cup {0}) + 1

\* The comment ids a client sends, likewise.
CommentIds == 0 .. Max(Ids(comment) \cup {0}) + 1

\* ---------------------------------------------------------------- requests
Idle ==
    [op |-> "none", pc |-> "idle", id |-> 0,
     title |-> None, author |-> None, content |-> None,
     obj |-> {}, session |-> "none", touched |-> FALSE,
     status |-> 0, detail |-> "", body |-> {}]

Free(w) == req[w].pc \in {"idle", "done"}

\* Faulty variant: the session is closed after the handler returns, not in a
\* with-block, so an exception leaves it open.
Respond_leak(r, status, detail, body) ==
    [r EXCEPT !.pc = "done", !.status = status, !.detail = detail,
              !.body = body,
              !.session = IF status >= 400 THEN "open" ELSE "closed"]

\* The response leaves the handler and get_session's with-block closes the
\* session.
Respond(r, status, detail, body) ==
    [r EXCEPT !.pc = "done", !.status = status, !.detail = detail,
              !.body = body, !.session = "closed"]

Init ==
    /\ task = {}
    /\ comment = {}
    /\ req = [w \in Workers |-> Idle]
    /\ nreq = 0

\* ---------------------------------------------------------------- receive
In(op, id, title, author, content) ==
    [op |-> op, id |-> id, title |-> title, author |-> author, content |-> content]

\* What clients send: a method and path with its path id and JSON body.
Inputs ==
    {In("create_task", 0, t, None, None) : t \in Titles \cup {None}}
    \cup {In("list_tasks", 0, None, None, None)}
    \cup {In(op, i, None, None, None) :
            op \in {"get_task", "delete_task", "list_comments"}, i \in TaskIds}
    \cup {In("list_comments", -1, None, None, None)}
    \cup {In(op, i, None, None, None) :
            op \in {"get_comment", "delete_comment"}, i \in CommentIds}
    \cup {In("update_task", i, t, None, None) : i \in TaskIds, t \in Titles \cup {None}}
    \cup {In("add_comment", i, None, a, c) :
            i \in TaskIds, a \in Authors \cup {None}, c \in Contents \cup {None}}
    \cup {In("update_comment", i, None, a, c) :
            i \in CommentIds, a \in Authors \cup {None}, c \in Contents \cup {None}}

\* class TaskCreate(BaseModel): title is a required str, of any length.
TaskCreate(in) == in.title # None

\* class CommentCreate(BaseModel): author and content are required strs.
CommentCreate(in) == in.author # None /\ in.content # None

\* Faulty variant: the path parameter is declared ge=0 instead of gt=0.
PathGe0(in) == in.id >= 0

\* task_id: int = Path(..., gt=0) of list_comments.
PathGt0(in) == in.id > 0

\* FastAPI validates the path and the body against the handler's signature
\* before it calls the handler.
Valid(in) ==
    CASE in.op = "create_task" -> TaskCreate(in)
      [] in.op = "add_comment" -> CommentCreate(in)
      [] in.op = "list_comments" -> PathGt0(in)
      [] OTHER -> TRUE

\* The handler's first store statement.
FirstPc(op) ==
    CASE op = "create_task" -> "commit"
      [] op = "list_tasks" -> "select"
      [] OTHER -> "get"

\* def get_session(): with Session(engine) as session: yield session.
\* Depends(get_session) makes the request's session before the handler runs;
\* a Session connects to the store at its first statement, not before.
get_session(in) ==
    [Idle EXCEPT !.op = in.op, !.id = in.id, !.title = in.title,
                 !.author = in.author, !.content = in.content,
                 !.session = "open"]

\* A worker takes a request: the session is made, the input is validated,
\* and either the handler starts or the request ends with 422.
Receive(w, max) ==
    /\ Free(w)
    /\ nreq < max
    /\ \E in \in Inputs :
         req' = [req EXCEPT ![w] =
                   IF Valid(in)
                   THEN [get_session(in) EXCEPT !.pc = FirstPc(in.op)]
                   ELSE Respond(get_session(in), 422, "validation", {})]
    /\ nreq' = nreq + 1
    /\ UNCHANGED <<task, comment>>

\* ---------------------------------------------------------------- handlers
At(w, op, pc) == req[w].op = op /\ req[w].pc = pc

\* The statement a handler runs reaches the store.
Touch(r) == [r EXCEPT !.touched = TRUE]

\* Faulty variant: the 404 does not say which kind of entity was looked up.
NotFound_generic(r, kind) == Respond(Touch(r), 404, "Not Found", {})

NotFound(r, kind) == Respond(Touch(r), 404, kind, {})

\* session.refresh(obj) of a row that is gone raises InvalidRequestError,
\* an UPDATE that matches no row raises StaleDataError, and a commit the
\* store refuses raises OperationalError: each leaves the handler as a 500.
ServerError(r) == Respond(Touch(r), 500, "Internal Server Error", {})

\* session.refresh(obj): read the object's row again by its primary key.
Refresh(w, rows, status) ==
    LET r == req[w]
        now == Get(rows, (CHOOSE o \in r.obj : TRUE).id)
    IN  req' = [req EXCEPT ![w] =
                  IF now = {} THEN ServerError(r)
                  ELSE Respond(Touch([r EXCEPT !.obj = now]), status, "", now)]

\* @app.post("/tasks/")
create_task(w) ==
    \/ /\ At(w, "create_task", "commit")
       /\ LET db_task == Task(NextId(task), req[w].title)
          IN  /\ task' = task \cup {db_task}
              /\ req' = [req EXCEPT ![w] =
                           Touch([@ EXCEPT !.obj = {db_task}, !.pc = "refresh"])]
       /\ UNCHANGED <<comment, nreq>>
    \/ /\ At(w, "create_task", "refresh")
       /\ Refresh(w, task, 201)
       /\ UNCHANGED <<task, comment, nreq>>

\* @app.get("/tasks/")
list_tasks(w) ==
    /\ At(w, "list_tasks", "select")
    /\ req' = [req EXCEPT ![w] = Respond(Touch(@), 200, "", task)]
    /\ UNCHANGED <<task, comment, nreq>>

\* Faulty variant: the handler returns the first Task of the table, whatever the id.
get_task_first(w) ==
    /\ At(w, "get_task", "get")
    /\ LET t == {x \in task : \A y \in task : x.id <= y.id}
       IN  req' = [req EXCEPT ![w] =
                     IF t = {} THEN NotFound(@, "Task not found")
                     ELSE Respond(Touch(@), 200, "", t)]
    /\ UNCHANGED <<task, comment, nreq>>

\* @app.get("/tasks/{task_id}")
get_task(w) ==
    /\ At(w, "get_task", "get")
    /\ LET t == Get(task, req[w].id)
       IN  req' = [req EXCEPT ![w] =
                     IF t = {} THEN NotFound(@, "Task not found")
                     ELSE Respond(Touch(@), 200, "", t)]
    /\ UNCHANGED <<task, comment, nreq>>

\* Faulty variant: "if payload.title is not None", so an empty title is stored.
SetTitle_present(t, payload) ==
    IF payload.title # None THEN [t EXCEPT !.title = payload.title] ELSE t

\* if payload.title: task.title = payload.title
SetTitle(t, payload) ==
    IF Truthy(payload.title) THEN [t EXCEPT !.title = payload.title] ELSE t

\* Faulty variant: the UPDATE has no WHERE clause and sets every Task's title.
update_task_all(w) ==
    \/ /\ At(w, "update_task", "get")
       /\ LET t == Get(task, req[w].id)
          IN  req' = [req EXCEPT ![w] =
                        IF t = {} THEN NotFound(@, "Task not found")
                        ELSE Touch([@ EXCEPT !.obj = t, !.pc = "commit"])]
       /\ UNCHANGED <<task, comment, nreq>>
    \/ /\ At(w, "update_task", "commit")
       /\ LET r == req[w]
              old == CHOOSE o \in r.obj : TRUE
              new == SetTitle(old, r)
          IN  IF new = old
              THEN /\ req' = [req EXCEPT ![w].pc = "refresh"]
                   /\ task' = task
              ELSE IF Get(task, old.id) = {}
              THEN /\ req' = [req EXCEPT ![w] = ServerError(r)]
                   /\ task' = task
              ELSE /\ task' = {[t EXCEPT !.title = new.title] : t \in task}
                   /\ req' = [req EXCEPT ![w].pc = "refresh"]
       /\ UNCHANGED <<comment, nreq>>
    \/ /\ At(w, "update_task", "refresh")
       /\ Refresh(w, task, 200)
       /\ UNCHANGED <<task, comment, nreq>>

\* @app.put("/tasks/{task_id}")
update_task(w) ==
    \/ /\ At(w, "update_task", "get")
       /\ LET t == Get(task, req[w].id)
          IN  req' = [req EXCEPT ![w] =
                        IF t = {} THEN NotFound(@, "Task not found")
                        ELSE Touch([@ EXCEPT !.obj = t, !.pc = "commit"])]
       /\ UNCHANGED <<task, comment, nreq>>
    \/ /\ At(w, "update_task", "commit")
       /\ LET r == req[w]
              old == CHOOSE o \in r.obj : TRUE
              new == SetTitle(old, r)
          IN  IF new = old
              THEN \* nothing is dirty: the flush emits no UPDATE
                   /\ req' = [req EXCEPT ![w].pc = "refresh"]
                   /\ task' = task
              ELSE IF Get(task, old.id) = {}
              THEN \* UPDATE ... WHERE id = ? matched no row
                   /\ req' = [req EXCEPT ![w] = ServerError(r)]
                   /\ task' = task
              ELSE /\ task' = (task \ Get(task, old.id)) \cup {new}
                   /\ req' = [req EXCEPT ![w].pc = "refresh"]
       /\ UNCHANGED <<comment, nreq>>
    \/ /\ At(w, "update_task", "refresh")
       /\ Refresh(w, task, 200)
       /\ UNCHANGED <<task, comment, nreq>>

\* Faulty variant: the delete cascades to the Task's Comments.
delete_task_cascade(w) ==
    \/ /\ At(w, "delete_task", "get")
       /\ LET t == Get(task, req[w].id)
          IN  req' = [req EXCEPT ![w] =
                        IF t = {} THEN NotFound(@, "Task not found")
                        ELSE Touch([@ EXCEPT !.obj = t, !.pc = "commit"])]
       /\ UNCHANGED <<task, comment, nreq>>
    \/ /\ At(w, "delete_task", "commit")
       /\ task' = task \ Get(task, (CHOOSE o \in req[w].obj : TRUE).id)
       /\ comment' = {c \in comment : c.task_id # (CHOOSE o \in req[w].obj : TRUE).id}
       /\ req' = [req EXCEPT ![w] = Respond(@, 204, "", {})]
       /\ UNCHANGED nreq

\* @app.delete("/tasks/{task_id}")
delete_task(w) ==
    \/ /\ At(w, "delete_task", "get")
       /\ LET t == Get(task, req[w].id)
          IN  req' = [req EXCEPT ![w] =
                        IF t = {} THEN NotFound(@, "Task not found")
                        ELSE Touch([@ EXCEPT !.obj = t, !.pc = "commit"])]
       /\ UNCHANGED <<task, comment, nreq>>
    \/ /\ At(w, "delete_task", "commit")
       \* DELETE FROM task WHERE id = ?; no statement touches table comment,
       \* and SQLite leaves foreign keys unenforced unless a PRAGMA asks.
       /\ task' = task \ Get(task, (CHOOSE o \in req[w].obj : TRUE).id)
       /\ req' = [req EXCEPT ![w] = Respond(@, 204, "", {})]
       /\ UNCHANGED <<comment, nreq>>

\* Faulty variant: the select has no where clause.
list_comments_all(w) ==
    \/ /\ At(w, "list_comments", "get")
       /\ LET t == Get(task, req[w].id)
          IN  req' = [req EXCEPT ![w] =
                        IF t = {} THEN NotFound(@, "Task not found")
                        ELSE Touch([@ EXCEPT !.pc = "select"])]
       /\ UNCHANGED <<task, comment, nreq>>
    \/ /\ At(w, "list_comments", "select")
       /\ req' = [req EXCEPT ![w] = Respond(@, 200, "", comment)]
       /\ UNCHANGED <<task, comment, nreq>>

\* Faulty variant: the handler selects the Comments without looking the Task up.
list_comments_unchecked(w) ==
    \/ /\ At(w, "list_comments", "get")
       /\ req' = [req EXCEPT ![w] = Touch([@ EXCEPT !.pc = "select"])]
       /\ UNCHANGED <<task, comment, nreq>>
    \/ /\ At(w, "list_comments", "select")
       /\ req' = [req EXCEPT ![w] =
                    Respond(@, 200, "", {c \in comment : c.task_id = req[w].id})]
       /\ UNCHANGED <<task, comment, nreq>>

\* @app.get("/tasks/{task_id}/comments/")
list_comments(w) ==
    \/ /\ At(w, "list_comments", "get")
       /\ LET t == Get(task, req[w].id)
          IN  req' = [req EXCEPT ![w] =
                        IF t = {} THEN NotFound(@, "Task not found")
                        ELSE Touch([@ EXCEPT !.pc = "select"])]
       /\ UNCHANGED <<task, comment, nreq>>
    \/ /\ At(w, "list_comments", "select")
       \* select(Comment).where(Comment.task_id == task_id)
       /\ req' = [req EXCEPT ![w] =
                    Respond(@, 200, "", {c \in comment : c.task_id = req[w].id})]
       /\ UNCHANGED <<task, comment, nreq>>

\* Faulty variant: the handler does not look the Task up before it inserts.
add_comment_unchecked(w) ==
    \/ /\ At(w, "add_comment", "get")
       /\ req' = [req EXCEPT ![w] = Touch([@ EXCEPT !.pc = "commit"])]
       /\ UNCHANGED <<task, comment, nreq>>
    \/ /\ At(w, "add_comment", "commit")
       /\ LET r == req[w]
              c == Comment(NextId(comment), r.id, r.author, r.content)
          IN  /\ comment' = comment \cup {c}
              /\ req' = [req EXCEPT ![w] = [r EXCEPT !.obj = {c}, !.pc = "refresh"]]
       /\ UNCHANGED <<task, nreq>>
    \/ /\ At(w, "add_comment", "refresh")
       /\ Refresh(w, comment, 201)
       /\ UNCHANGED <<task, comment, nreq>>

\* @app.post("/tasks/{task_id}/comments/")
add_comment(w) ==
    \/ /\ At(w, "add_comment", "get")
       /\ LET t == Get(task, req[w].id)
          IN  req' = [req EXCEPT ![w] =
                        IF t = {} THEN NotFound(@, "Task not found")
                        ELSE Touch([@ EXCEPT !.pc = "commit"])]
       /\ UNCHANGED <<task, comment, nreq>>
    \/ /\ At(w, "add_comment", "commit")
       /\ LET r == req[w]
              c == Comment(NextId(comment), r.id, r.author, r.content)
          IN  /\ comment' = comment \cup {c}
              /\ req' = [req EXCEPT ![w] = [r EXCEPT !.obj = {c}, !.pc = "refresh"]]
       /\ UNCHANGED <<task, nreq>>
    \/ /\ At(w, "add_comment", "refresh")
       /\ Refresh(w, comment, 201)
       /\ UNCHANGED <<task, comment, nreq>>

\* @app.get("/comments/{comment_id}")
get_comment(w) ==
    /\ At(w, "get_comment", "get")
    /\ LET c == Get(comment, req[w].id)
       IN  req' = [req EXCEPT ![w] =
                     IF c = {} THEN NotFound(@, "Comment not found")
                     ELSE Respond(Touch(@), 200, "", c)]
    /\ UNCHANGED <<task, comment, nreq>>

\* if payload.author: comment.author = payload.author
SetAuthor(c, payload) ==
    IF Truthy(payload.author) THEN [c EXCEPT !.author = payload.author] ELSE c

\* Faulty variant: "if payload.content is not None", so an empty content is stored.
SetContent_present(c, payload) ==
    IF payload.content # None THEN [c EXCEPT !.content = payload.content] ELSE c

\* if payload.content: comment.content = payload.content
SetContent(c, payload) ==
    IF Truthy(payload.content) THEN [c EXCEPT !.content = payload.content] ELSE c

\* Faulty variant: the UPDATE also detaches the row from its Task.
Flush_detach(row, old, new) ==
    [row EXCEPT !.author = IF new.author # old.author THEN new.author ELSE @,
                !.content = IF new.content # old.content THEN new.content ELSE @,
                !.task_id = 0]

\* The flush writes the columns whose value differs from the loaded one:
\* UPDATE comment SET <dirty columns> WHERE id = ?
Flush(row, old, new) ==
    [row EXCEPT !.author = IF new.author # old.author THEN new.author ELSE @,
                !.content = IF new.content # old.content THEN new.content ELSE @]

\* @app.put("/comments/{comment_id}")
update_comment(w) ==
    \/ /\ At(w, "update_comment", "get")
       /\ LET c == Get(comment, req[w].id)
          IN  req' = [req EXCEPT ![w] =
                        IF c = {} THEN NotFound(@, "Comment not found")
                        ELSE Touch([@ EXCEPT !.obj = c, !.pc = "commit"])]
       /\ UNCHANGED <<task, comment, nreq>>
    \/ /\ At(w, "update_comment", "commit")
       /\ LET r == req[w]
              old == CHOOSE o \in r.obj : TRUE
              new == SetContent(SetAuthor(old, r), r)
              row == Get(comment, old.id)
          IN  IF new = old
              THEN /\ req' = [req EXCEPT ![w].pc = "refresh"]
                   /\ comment' = comment
              ELSE IF row = {}
              THEN /\ req' = [req EXCEPT ![w] = ServerError(r)]
                   /\ comment' = comment
              ELSE /\ comment' = (comment \ row)
                                   \cup {Flush(CHOOSE x \in row : TRUE, old, new)}
                   /\ req' = [req EXCEPT ![w].pc = "refresh"]
       /\ UNCHANGED <<task, nreq>>
    \/ /\ At(w, "update_comment", "refresh")
       /\ Refresh(w, comment, 200)
       /\ UNCHANGED <<task, comment, nreq>>

\* @app.delete("/comments/{comment_id}")
delete_comment(w) ==
    \/ /\ At(w, "delete_comment", "get")
       /\ LET c == Get(comment, req[w].id)
          IN  req' = [req EXCEPT ![w] =
                        IF c = {} THEN NotFound(@, "Comment not found")
                        ELSE Touch([@ EXCEPT !.obj = c, !.pc = "commit"])]
       /\ UNCHANGED <<task, comment, nreq>>
    \/ /\ At(w, "delete_comment", "commit")
       /\ comment' = comment \ Get(comment, (CHOOSE o \in req[w].obj : TRUE).id)
       /\ req' = [req EXCEPT ![w] = Respond(@, 204, "", {})]
       /\ UNCHANGED <<task, nreq>>

\* Faulty variant: the DELETE is committed before the failure is raised.
StoreFailure_committed(w) ==
    /\ req[w].pc = "commit"
    /\ req' = [req EXCEPT ![w] = ServerError(@)]
    /\ task' = IF req[w].op = "delete_task" THEN task \ req[w].obj ELSE task
    /\ comment' = IF req[w].op = "delete_comment" THEN comment \ req[w].obj ELSE comment
    /\ UNCHANGED nreq

\* session.commit() raises (the database is locked, the disk is full): the
\* transaction is rolled back, nothing of it is stored, and the exception
\* leaves through get_session's with-block as a 500.
StoreFailure(w) ==
    /\ req[w].pc = "commit"
    /\ req' = [req EXCEPT ![w] = ServerError(@)]
    /\ UNCHANGED <<task, comment, nreq>>

\* ---------------------------------------------------------------- system
Statement(w) ==
    \/ create_task(w)
    \/ list_tasks(w)
    \/ get_task(w)
    \/ update_task(w)
    \/ delete_task(w)
    \/ list_comments(w)
    \/ add_comment(w)
    \/ get_comment(w)
    \/ update_comment(w)
    \/ delete_comment(w)

\* A request in progress runs its handler's next statement, or the store
\* fails its commit.
Handler(w) == Statement(w) \/ StoreFailure(w)

\* Requests run concurrently, one per worker thread.
Next == \E w \in Workers : Receive(w, MaxRacing) \/ Handler(w)

Spec == Init /\ [][Next]_vars

\* Requests run one after the other: one worker takes them all.
NextSerial == Receive("w1", MaxRequests) \/ Handler("w1")

SpecSerial == Init /\ [][NextSerial]_vars

\* The end-to-end scenario: POST /tasks/, POST /tasks/1/comments/,
\* GET /tasks/1/comments/, DELETE /tasks/1, GET /tasks/1, GET /comments/1.
Script ==
    << In("create_task", 0, "A", None, None),
       In("add_comment", 1, None, "bob", "hi"),
       In("list_comments", 1, None, None, None),
       In("delete_task", 1, None, None, None),
       In("get_task", 1, None, None, None),
       In("get_comment", 1, None, None, None) >>

\* The worker takes the scenario's next request.
ReceiveScript(w) ==
    /\ Free(w)
    /\ nreq < Len(Script)
    /\ req' = [req EXCEPT ![w] =
                 IF Valid(Script[nreq + 1])
                 THEN [get_session(Script[nreq + 1]) EXCEPT !.pc = FirstPc(Script[nreq + 1].op)]
                 ELSE Respond(get_session(Script[nreq + 1]), 422, "validation", {})]
    /\ nreq' = nreq + 1
    /\ UNCHANGED <<task, comment>>

\* The scenario's requests run one after the other from the empty store,
\* with a store that does not fail; any requests may follow them, one after
\* the other on either worker.
NextScenario ==
    \/ ReceiveScript("w1")
    \/ \E w \in Workers :
          /\ nreq >= Len(Script)
          /\ \A v \in Workers \ {w} : Free(v)
          /\ Receive(w, Len(Script) + MaxAfter)
    \/ \E w \in Workers : Statement(w)
    \/ \E w \in Workers : nreq > Len(Script) /\ StoreFailure(w)

SpecScenario == Init /\ [][NextScenario]_vars

\* A handler that has started runs to its end: the thread pool keeps running
\* the worker's thread.
SpecSerialFair == SpecSerial /\ WF_vars(Handler("w1"))

\* ---------------------------------------------------------------- claims
\* The step is one of worker w's.
Stepped(w) == req'[w] # req[w]

Done(w, op) == req[w].op = op /\ req[w].pc = "done"

\* C1: every Comment that add_comment inserts has, when the insert is
\* committed, the task_id of a Task that is stored at that moment, whatever
\* delete_task requests run concurrently.
C1_InsertedCommentHasTask ==
    [][\A c \in comment' :
          c.id \notin Ids(comment) => \E t \in task' : t.id = c.task_id]_vars

\* C2: add_comment on a task id that has no stored Task answers 404 and the
\* step leaves both tables as they were.
C2_AddCommentMissingTask ==
    [][\A w \in Workers :
          (At(w, "add_comment", "get") /\ Stepped(w) /\ Get(task, req[w].id) = {})
          => /\ req'[w].pc = "done"
             /\ req'[w].status = 404
             /\ task' = task
             /\ comment' = comment]_vars

\* C2 witness: an add_comment has ended with 404 while Tasks are stored.
C2_Witness ==
    \E w \in Workers :
        /\ Done(w, "add_comment") /\ req[w].status = 404
        /\ task # {} /\ comment = {}

\* C3: a delete_task that succeeds on T removes T's row and leaves table
\* comment as it was; get_task of an id with no row answers 404, and
\* get_comment of a stored Comment answers 200 with that row, also when the
\* Comment's Task is gone.
C3_DeleteTaskKeepsComments ==
    [][\A w \in Workers :
          /\ (At(w, "delete_task", "commit") /\ req'[w].status = 204)
             => Get(task', req[w].id) = {} /\ comment' = comment
          /\ (At(w, "get_task", "get") /\ Stepped(w) /\ Get(task, req[w].id) = {})
             => req'[w].status = 404 /\ req'[w].detail = "Task not found"
          /\ (At(w, "get_comment", "get") /\ Stepped(w) /\ Get(comment, req[w].id) # {})
             => /\ req'[w].status = 200
                /\ req'[w].body = Get(comment, req[w].id)
                /\ comment' = comment]_vars

\* C3 witness: get_comment has returned, with 200, a Comment whose Task was
\* deleted.
C3_Witness ==
    \E w \in Workers :
        /\ Done(w, "get_comment") /\ req[w].status = 200
        /\ \E c \in req[w].body : c \in comment /\ c.task_id \notin Ids(task)

\* C4: the commit of an update_task on a stored Task T sets T's title to the
\* payload's title when that is present and non-empty and leaves T's row as
\* it was otherwise; T keeps its id, no other row of either table changes,
\* and the handler's other steps change no row.
C4_UpdateTaskTitle ==
    [][\A w \in Workers :
          /\ (At(w, "update_task", "commit") /\ req'[w].pc = "refresh")
             => LET T == req[w].id
                    old == Get(task, T)
                IN  /\ old # {}
                    /\ Get(task', T) =
                         IF Truthy(req[w].title) THEN {Task(T, req[w].title)} ELSE old
                    /\ task' \ Get(task', T) = task \ old
                    /\ comment' = comment
          /\ (req[w].op = "update_task" /\ Stepped(w) /\ req[w].pc # "commit")
             => task' = task /\ comment' = comment]_vars

\* C4 witness: an update_task has committed a non-empty title that differs
\* from the one it loaded, and the row now holds it.
C4_Witness ==
    \E w \in Workers :
        /\ At(w, "update_task", "refresh")
        /\ Truthy(req[w].title)
        /\ \E o \in req[w].obj : o.title # req[w].title /\ o.title # ""
        /\ Task(req[w].id, req[w].title) \in task

\* C5: the commit of an update_comment on a stored Comment replaces author
\* by the payload's author only if that is present and non-empty, and
\* content likewise, each whatever the other is; id and task_id stay, and no
\* other row changes.
C5_UpdateCommentFields ==
    [][\A w \in Workers :
          (At(w, "update_comment", "commit") /\ req'[w].pc = "refresh")
          => LET r == req[w]
                 old == Get(comment, r.id)
             IN  /\ old # {}
                 /\ \A o \in old :
                      Get(comment', r.id) =
                        {Comment(o.id, o.task_id,
                                 IF Truthy(r.author) THEN r.author ELSE o.author,
                                 IF Truthy(r.content) THEN r.content ELSE o.content)}
                 /\ comment' \ Get(comment', r.id) = comment \ old
                 /\ task' = task]_vars

\* C5 witness: an update_comment with a new author and the empty string as
\* content has committed: the author is replaced, the content is kept.
C5_Witness ==
    \E w \in Workers :
        /\ At(w, "update_comment", "refresh")
        /\ Truthy(req[w].author) /\ req[w].content = ""
        /\ \E o \in req[w].obj :
             /\ o.author # req[w].author
             /\ o.content # ""
             /\ Comment(o.id, o.task_id, req[w].author, o.content) \in comment

\* C6: when requests run one after the other, a list_comments of a stored
\* Task T has answered 200 with exactly the stored Comments whose task_id
\* is T.
C6_ListCommentsExact ==
    \A w \in Workers :
        (Done(w, "list_comments") /\ Get(task, req[w].id) # {})
        => /\ req[w].status = 200
           /\ req[w].body = {c \in comment : c.task_id = req[w].id}

\* C6 witness: list_comments has answered 200 while a Comment of another
\* task id is stored.
C6_Witness ==
    \E w \in Workers :
        /\ Done(w, "list_comments") /\ req[w].status = 200
        /\ \E c \in comment : c.task_id # req[w].id

\* C7: every stored Task has a non-empty title.
C7_TitlesNonEmpty == \A t \in task : t.title # ""

\* create_task has answered 201: the body is one Task, it carries the
\* payload's title, and that row is stored.
CreateReturnsStored(w) ==
    (Done(w, "create_task") /\ req[w].status = 201)
    => /\ Cardinality(req[w].body) = 1
       /\ \A b \in req[w].body : b.title = req[w].title /\ b \in task

\* get_task has answered: 200 with the stored row of that id, if there is
\* one.
GetReturnsStored(w) ==
    (Done(w, "get_task") /\ Get(task, req[w].id) # {})
    => req[w].status = 200 /\ req[w].body = Get(task, req[w].id)

\* A Task row leaves the table or changes only in the commit of a
\* delete_task or an update_task of its id.
RowKeptUnlessUpdatedOrDeleted ==
    \A t \in task \ task' :
        \E w \in Workers :
            /\ req[w].op \in {"update_task", "delete_task"}
            /\ req[w].pc = "commit"
            /\ req[w].id = t.id

\* C8: when requests run one after the other, create_task answers with a
\* stored Task that has the accepted title, that row stays as it is until an
\* update_task or delete_task of its id commits, and get_task of a stored id
\* answers 200 with the stored row: get_task of the id create_task returned
\* gives the same id and title.
C8_CreateThenGet ==
    /\ [](\A w \in Workers : CreateReturnsStored(w) /\ GetReturnsStored(w))
    /\ [][RowKeptUnlessUpdatedOrDeleted]_vars

\* C8 witness: get_task has returned, with 200, a stored Task, and more than
\* one Task is stored.
C8_Witness ==
    \E w \in Workers :
        /\ Done(w, "get_task") /\ req[w].status = 200
        /\ req[w].body \subseteq task
        /\ Cardinality(task) > 1

\* The detail of the 404 of each operation that looks a row up by id.
Kind(op) ==
    IF op \in {"get_comment", "update_comment", "delete_comment"}
    THEN "Comment not found" ELSE "Task not found"

\* The table the operation looks its path id up in.
Table(op) ==
    IF op \in {"get_comment", "update_comment", "delete_comment"}
    THEN comment ELSE task

\* C9: get_task, update_task, delete_task, list_comments, get_comment,
\* update_comment and delete_comment on an id that has no row answer 404
\* with the kind of entity looked up, and the step changes neither table.
C9_MissingIdIsNotFound ==
    [][\A w \in Workers :
          (/\ req[w].op \in {"get_task", "update_task", "delete_task", "list_comments",
                             "get_comment", "update_comment", "delete_comment"}
           /\ req[w].pc = "get"
           /\ Stepped(w)
           /\ Get(Table(req[w].op), req[w].id) = {})
          => /\ req'[w].pc = "done"
             /\ req'[w].status = 404
             /\ req'[w].detail = Kind(req[w].op)
             /\ task' = task
             /\ comment' = comment]_vars

\* C9 witness: an update_comment has ended with 404 "Comment not found"
\* while a Comment of another id is stored.
C9_Witness ==
    \E w \in Workers :
        /\ Done(w, "update_comment") /\ req[w].status = 404
        /\ req[w].detail = "Comment not found"
        /\ comment # {}

\* C10: a list_comments with a task id that is not greater than 0 has ended
\* with 422, a client error other than 404, and its request has run no
\* statement on the store.
C10_ListCommentsValidation ==
    \A w \in Workers :
        (req[w].op = "list_comments" /\ req[w].id <= 0)
        => /\ req[w].pc = "done"
           /\ req[w].status \in 400 .. 499
           /\ req[w].status # 404
           /\ ~req[w].touched

\* C10 witness: a list_comments of task id 0 has been answered with 422
\* while Tasks are stored.
C10_Witness ==
    \E w \in Workers :
        /\ Done(w, "list_comments") /\ req[w].id = 0 /\ req[w].status = 422
        /\ task # {}

\* C11: when two update_task requests with non-empty titles on the same
\* stored Task both complete, the title stored after the later of the two
\* commits is that request's title.
C11_LastCommitWins ==
    [][\A w \in Workers : \A v \in Workers \ {w} :
          (/\ At(w, "update_task", "commit") /\ req'[w].pc = "refresh"
           /\ Truthy(req[w].title)
           /\ req[v].op = "update_task" /\ req[v].id = req[w].id
           /\ Truthy(req[v].title)
           /\ \/ req[v].pc = "refresh"
              \/ req[v].pc = "done" /\ req[v].status = 200)
          => Task(req[w].id, req[w].title) \in task']_vars

\* The request of worker w holds an open session exactly while it is in
\* progress, and a closed one once it has finished.
SessionScoped(w) ==
    /\ req[w].pc = "idle" => req[w].session = "none"
    /\ req[w].pc \notin {"idle", "done"} => req[w].session = "open"
    /\ req[w].pc = "done" => req[w].session = "closed"

Mutating ==
    {"create_task", "update_task", "delete_task",
     "add_comment", "update_comment", "delete_comment"}

\* The commit of worker w's request is behind it and has written a row: an
\* insert, or an update with a changed column.
Wrote(w) ==
    /\ req[w].pc = "refresh"
    /\ \/ req[w].op \in {"create_task", "add_comment"}
       \/ req[w].op = "update_task"
          /\ \E o \in req[w].obj : SetTitle(o, req[w]) # o
       \/ req[w].op = "update_comment"
          /\ \E o \in req[w].obj : SetContent(SetAuthor(o, req[w]), req[w]) # o

\* The table the operation writes to.
Written(op) ==
    IF op \in {"add_comment", "update_comment", "delete_comment"}
    THEN comment ELSE task

Others(rows, id) == {r \in rows : r.id # id}

\* C14: a step of a request changes at most the record the request targets.
\* The reads change no row; create_task and add_comment add one row to
\* their table in their commit and change no stored row; update_task and
\* delete_task leave every Task of another id and every Comment as they
\* were, update_comment and delete_comment every Comment of another id and
\* every Task; receiving a request changes no row.
C14_OnlyTheTargetChanges ==
    [][\A w \in Workers : Stepped(w) =>
          LET r == req[w] IN
          CASE r.pc \in {"idle", "done"} ->
                  task' = task /\ comment' = comment
            [] r.op \in {"list_tasks", "get_task", "list_comments", "get_comment"} ->
                  task' = task /\ comment' = comment
            [] r.op = "create_task" ->
                  /\ comment' = comment
                  /\ task \subseteq task'
                  /\ Cardinality(task' \ task) = (IF r.pc = "commit" /\ req'[w].pc = "refresh" THEN 1 ELSE 0)
            [] r.op = "add_comment" ->
                  /\ task' = task
                  /\ comment \subseteq comment'
                  /\ Cardinality(comment' \ comment) = (IF r.pc = "commit" /\ req'[w].pc = "refresh" THEN 1 ELSE 0)
            [] r.op \in {"update_task", "delete_task"} ->
                  /\ comment' = comment
                  /\ Others(task', r.id) = Others(task, r.id)
                  /\ Cardinality(Get(task', r.id)) <= Cardinality(Get(task, r.id))
            [] r.op \in {"update_comment", "delete_comment"} ->
                  /\ task' = task
                  /\ Others(comment', r.id) = Others(comment, r.id)
                  /\ Cardinality(Get(comment', r.id)) <= Cardinality(Get(comment, r.id))]_vars

\* C14 witness: an update_task has committed a new title for its Task while
\* another Task is stored.
C14_Witness ==
    \E w \in Workers :
        /\ At(w, "update_task", "refresh")
        /\ \E o \in req[w].obj : o.title # req[w].title
        /\ Task(req[w].id, req[w].title) \in task
        /\ Others(task, req[w].id) # {}

\* The k-th request of the scenario has been answered.
Answered(k) == nreq = k /\ req["w1"].pc = "done"

\* C15: from the empty store the scenario's six requests are answered, in
\* order, 201 with Task 1 "A"; 201 with Comment 1 of task 1 by bob, "hi";
\* 200 with exactly that Comment; 204; 404; 200 with the Comment.
C15_Scenario ==
    LET r == req["w1"]
        c == Comment(1, 1, "bob", "hi")
    IN  /\ Answered(1) => r.status = 201 /\ r.body = {Task(1, "A")}
        /\ Answered(2) => r.status = 201 /\ r.body = {c}
        /\ Answered(3) => r.status = 200 /\ r.body = {c}
        /\ Answered(4) => r.status = 204 /\ r.body = {}
        /\ Answered(5) => r.status = 404
        /\ Answered(6) => r.status = 200 /\ r.body = {c} /\ task = {}

\* C15 witness: the scenario's last request has been answered with 200.
C15_Witness ==
    /\ Answered(6)
    /\ req["w1"].op = "get_comment" /\ req["w1"].status = 200

\* C16: when create_task has returned a new Task and the next request is a
\* list_comments of that Task's id, the list is empty.
C16_NewTaskHasNoComments ==
    [][\A w \in Workers : \A v \in Workers \ {w} :
          (/\ Done(w, "create_task") /\ req[w].status = 201
           /\ At(v, "list_comments", "select") /\ Stepped(v)
           /\ \E b \in req[w].body : b.id = req[v].id)
          => req'[v].status = 200 /\ req'[v].body = {}]_vars

\* C17: the id and the task_id of a stored Comment never change. No step
\* gives a stored Comment another task_id, update_comment's commit keeps the
\* set of stored Comment ids whatever its payload, and the Comment that
\* add_comment's commit inserts carries the id of the request's path as its
\* task_id.
C17_CommentKeysNeverChange ==
    [][/\ \A c \in comment : \A d \in comment' :
             d.id = c.id => d.task_id = c.task_id
       /\ \A w \in Workers :
             (At(w, "update_comment", "commit") /\ Stepped(w))
             => Ids(comment') = Ids(comment)
       /\ \A w \in Workers :
             (At(w, "add_comment", "commit") /\ req'[w].pc = "refresh")
             => /\ Cardinality(comment' \ comment) = 1
                /\ \A d \in comment' \ comment : d.task_id = req[w].id]_vars

\* An update_comment has committed an UPDATE that changed the row it loaded,
\* and the row still carries the loaded id and task_id.
C17_Witness ==
    \E w \in Workers :
        /\ At(w, "update_comment", "refresh")
        /\ \E o \in req[w].obj : \E d \in comment :
              /\ d.id = o.id /\ d.task_id = o.task_id
              /\ d # o
              /\ d = SetContent(SetAuthor(o, req[w]), req[w])

\* The stored Comments whose task_id names no stored Task.
Orphans(tasks, comments) == {c \in comments : Get(tasks, c.task_id) = {}}

\* C18: while no Task with id T is stored, list_comments(T) and
\* add_comment(T) answer 404 "Task not found" at their lookup and change
\* nothing, also when Comments with task_id T are stored. With requests
\* served one after the other, a Comment whose Task is gone is returned
\* only by get_comment and update_comment, which take the Comment's own id.
C18_OrphansOnlyByOwnId ==
    [][\A w \in Workers :
          /\ (/\ req[w].op \in {"list_comments", "add_comment"}
              /\ req[w].pc = "get" /\ Stepped(w)
              /\ Get(task, req[w].id) = {})
             => /\ req'[w].pc = "done"
                /\ req'[w].status = 404
                /\ req'[w].detail = "Task not found"
                /\ req'[w].body = {}
                /\ task' = task /\ comment' = comment
          /\ (/\ Stepped(w) /\ req'[w].pc = "done"
              /\ req'[w].body \cap Orphans(task', comment') # {})
             => req[w].op \in {"get_comment", "update_comment"}]_vars

\* list_comments(T) has answered 404 while a Comment with task_id T is
\* stored and no Task T is.
C18_Witness ==
    \E w \in Workers :
        /\ Done(w, "list_comments")
        /\ req[w].status = 404
        /\ \E c \in Orphans(task, comment) : c.task_id = req[w].id

====
